---- MODULE Spec2Model ----
(***************************************************************************)
(* The electricity data pipeline of src/pipeline.py as a state machine:    *)
(* three sources (remote indicator API, renewable CSV file, losses SQLite  *)
(* table), the five tasks of the flow electricity_pipeline run in their    *)
(* fixed order, and the output file integrated_electricity_dataset.csv;    *)
(* and the Streamlit dashboards that read that file, each rerun of a       *)
(* script being one step.                                                  *)
(*                                                                         *)
(* A DataFrame is [columns |-> sequence of names, rows |-> sequence of     *)
(* records keyed by column name]; a raised exception is [exc |-> name].    *)
(* A tabular file is [header |-> names, lines |-> sequence of tuples].     *)
(***************************************************************************)
EXTENDS Integers, Sequences, FiniteSets, TLC

VARIABLES
    api,          \* what the indicator API answers: Unreachable or [json |-> response.json()[1]]
    csvFile,      \* renewable_electricity_processed.csv: Missing or a tabular file
    dbTable,      \* table electricity_losses_pct of electricity.db: Missing or a table
    outFile,      \* integrated_electricity_dataset.csv: Missing or a tabular file
    pc,           \* position of the flow run
    consumption,  \* flow locals: the task results
    renewable,
    losses,
    integrated,
    executed,     \* the tasks invoked by the current run, in invocation order
    failure,      \* the exception that ended the current run, or "none"
    fileAtStart,  \* the output file as it was when the current run started
    lastRun,      \* how the previous run ended: "none", "completed" or "failed"
    variant,      \* the dashboard script the Streamlit process runs, or "none"
    cache,        \* what st.cache_data holds for load_data(): NotCached or the table
    reads,        \* read_csv calls on the output file by the process: 0, 1, 2 = more
    view          \* what the last rendering cycle computed and displayed, or NoView

flowVars == <<api, csvFile, dbTable, outFile, pc, consumption, renewable, losses,
              integrated, executed, failure, fileAtStart, lastRun>>

dashVars == <<variant, cache, reads, view>>

vars == <<flowVars, dashVars>>

----------------------------------------------------------------------------
(* Bounds of the model *)

\* rows per source frame handed to integrate_data in SpecJoin
MaxRows == 2
\* records in the API response in SpecFetch
MaxRecords == 2
\* records / rows per source in the flow specification Spec
MaxFlowRows == 1

----------------------------------------------------------------------------
(* Values *)

\* Python None where a string is expected (the "no mapping" sentinel)
None == "None"
\* a missing number: JSON null / None in an API record, NaN in a DataFrame,
\* an empty cell of a CSV file, NULL in SQLite
NoValue == -1

Missing == [missing |-> TRUE]
Unreachable == [unreachable |-> TRUE]
Pending == [pending |-> TRUE]
NotCached == [notcached |-> TRUE]
NoView == [noview |-> TRUE]

Range(s) == {s[i] : i \in 1..Len(s)}

Raised(x) == "exc" \in DOMAIN x

SeqsUpTo(S, n) == UNION {[1..k -> S] : k \in 0..n}

----------------------------------------------------------------------------
(* Identifier reconciliation *)

\* the reference table of pycountry: alpha_2 -> alpha_3
ReferenceTable == [c \in {"US", "FR"} |-> IF c = "US" THEN "USA" ELSE "FRA"]

\* str.lower() on the country ids of the model
lower(code) ==
    CASE code = "US" -> "us" [] code = "FR" -> "fr" [] code = "1W" -> "1w"
      [] OTHER -> code

\* pycountry.countries.get(alpha_2=code): LookupError when the code is not a
\* string; the code is lower-cased and looked up in an index of the
\* lower-cased codes of the table: the record, None when there is none
countries_get(code) ==
    IF code = None THEN [exc |-> "LookupError"]
    ELSE LET found == {c \in DOMAIN ReferenceTable : lower(c) = lower(code)} IN
         IF found # {}
         THEN LET c == CHOOSE c \in found : TRUE IN
              [alpha_2 |-> c, alpha_3 |-> ReferenceTable[c]]
         ELSE [none |-> TRUE]

\* iso2_to_iso3 without its try/except: the exception escapes (here named)
iso2_to_iso3_unguarded(code) ==
    LET c == countries_get(code) IN
    IF Raised(c) THEN "LookupError"
    ELSE IF "none" \in DOMAIN c THEN "AttributeError"
    ELSE c.alpha_3

\* try: return countries.get(alpha_2=code).alpha_3   except: return None
iso2_to_iso3(code) ==
    LET c == countries_get(code) IN
    IF Raised(c) THEN None
    ELSE IF "none" \in DOMAIN c THEN None    \* None.alpha_3: AttributeError, caught
    ELSE c.alpha_3

\* truth value of a Python str-or-None
Truthy(s) == s # None /\ s # ""

\* int(str) on a string of decimal digits, given as the sequence of its digits
RECURSIVE int(_)
int(digits) ==
    IF digits = <<>> THEN 0
    ELSE 10 * int(SubSeq(digits, 1, Len(digits) - 1)) + digits[Len(digits)]

----------------------------------------------------------------------------
(* Task 1: fetch_consumption_data *)

ConsumptionColumns == <<"country_code", "year", "electricity_use_kwh_per_capita">>

\* pd.DataFrame(rows) for a list of dicts with the keys `columns`: an empty
\* list gives a frame with no rows and no columns
DataFrame(rows, columns) ==
    [columns |-> IF rows = <<>> THEN <<>> ELSE columns, rows |-> rows]

\* the condition of line 41 with the value tested for truth, which drops 0
keep_truthy(iso3, value) == Truthy(iso3) /\ value # NoValue /\ value # 0

\* if iso3 and item["value"] is not None
keep(iso3, value) == Truthy(iso3) /\ value # NoValue

\* the loop with the code mapped once, before it, from the first record
fetch_rows_first_code(data) ==
    LET iso3 == IF data = <<>> THEN None ELSE iso2_to_iso3(data[1].country.id)
        kept == SelectSeq(data, LAMBDA item : keep(iso3, item.value))
    IN [k \in 1..Len(kept) |->
          [country_code |-> iso3,
           year |-> int(kept[k].date),
           electricity_use_kwh_per_capita |-> kept[k].value]]

\* the loop over data, building rows
RECURSIVE fetch_rows(_)
fetch_rows(data) ==
    IF data = <<>> THEN <<>>
    ELSE LET item == Head(data)
             iso3 == iso2_to_iso3(item.country.id)
         IN  (IF keep(iso3, item.value)
              THEN <<[country_code |-> iso3,
                      year |-> int(item.date),
                      electricity_use_kwh_per_capita |-> item.value]>>
              ELSE <<>>) \o fetch_rows(Tail(data))

\* requests.get(url) raises when the API cannot be reached
fetch_consumption_data(response) ==
    IF response = Unreachable THEN [exc |-> "ConnectionError"]
    ELSE DataFrame(fetch_rows(response.json), ConsumptionColumns)

----------------------------------------------------------------------------
(* Tabular files and tables *)

IndexOf(s, x) == CHOOSE i \in 1..Len(s) : s[i] = x

\* pd.read_csv(path): a file with nothing in it raises EmptyDataError
read_csv(file) ==
    IF file = Missing THEN [exc |-> "FileNotFoundError"]
    ELSE IF file.header = <<>> THEN [exc |-> "EmptyDataError"]
    ELSE [columns |-> file.header,
          rows |-> [i \in 1..Len(file.lines) |->
                      [c \in Range(file.header) |->
                          file.lines[i][IndexOf(file.header, c)]]]]

\* df.to_csv(path, index=False): the file is opened for writing and holds the
\* header and one line per row, cells in column order
to_csv(df) ==
    [header |-> df.columns,
     lines |-> [i \in 1..Len(df.rows) |->
                  [j \in 1..Len(df.columns) |-> df.rows[i][df.columns[j]]]]]

\* df.rename(columns=mapping)
NewName(c, mapping) == IF c \in DOMAIN mapping THEN mapping[c] ELSE c

OldName(n, columns, mapping) == CHOOSE c \in Range(columns) : NewName(c, mapping) = n

rename(df, mapping) ==
    LET cols == [j \in 1..Len(df.columns) |-> NewName(df.columns[j], mapping)]
    IN  [columns |-> cols,
         rows |-> [i \in 1..Len(df.rows) |->
                     [n \in Range(cols) |-> df.rows[i][OldName(n, df.columns, mapping)]]]]

----------------------------------------------------------------------------
(* Task 2: load_renewable_data, Task 3: load_losses_data *)

RenameMap == [c \in {"Country Code", "Country Name"} |->
                 IF c = "Country Code" THEN "country_code" ELSE "country_name"]

load_renewable_data(file) ==
    LET df == read_csv(file) IN
    IF Raised(df) THEN df ELSE rename(df, RenameMap)

\* pd.read_sql("SELECT * FROM electricity_losses_pct", conn)
load_losses_data(table) ==
    IF table = Missing THEN [exc |-> "DatabaseError"]
    ELSE [columns |-> table.columns, rows |-> table.rows]

----------------------------------------------------------------------------
(* Task 4: integrate_data *)

JoinKeys == <<"country_code", "year">>

\* the join made on country_code alone
SameKey_country_only(l, r, on) == l.country_code = r.country_code

\* the key comparison of on=["country_code", "year"]
SameKey(l, r, on) == \A k \in Range(on) : l[k] = r[k]

\* a lookup that stops at the first right row matching
RECURSIVE matches_first(_, _, _)
matches_first(l, rrows, on) ==
    IF rrows = <<>> THEN <<>>
    ELSE IF SameKey(l, Head(rrows), on) THEN <<l @@ Head(rrows)>>
    ELSE matches_first(l, Tail(rrows), on)

\* the rows a left row gives with the right rows it matches, in right order
RECURSIVE matches(_, _, _)
matches(l, rrows, on) ==
    IF rrows = <<>> THEN <<>>
    ELSE (IF SameKey(l, Head(rrows), on) THEN <<l @@ Head(rrows)>> ELSE <<>>)
         \o matches(l, Tail(rrows), on)

RECURSIVE join_rows(_, _, _)
join_rows(lrows, rrows, on) ==
    IF lrows = <<>> THEN <<>>
    ELSE matches(Head(lrows), rrows, on) \o join_rows(Tail(lrows), rrows, on)

NotIn(s, excluded) ==
    LET Test(c) == c \notin Range(excluded) IN SelectSeq(s, Test)

\* left.merge(right, on=on, how="inner"): KeyError when a key column is missing
\* on either side; the left columns, then the right columns that are not keys
\* (the sources share no other column, so no column is renamed with a suffix);
\* the rows in the order of the left keys, each with its matches in right order
merge(left, right, on) ==
    IF ~(Range(on) \subseteq Range(left.columns) /\ Range(on) \subseteq Range(right.columns))
    THEN [exc |-> "KeyError"]
    ELSE [columns |-> left.columns \o NotIn(right.columns, on),
          rows |-> join_rows(left.rows, right.rows, on)]

\* the integration with consumption merged first
integrate_consumption_first(cons, ren, los) ==
    LET df == merge(cons, ren, JoinKeys) IN
    IF Raised(df) THEN df ELSE merge(df, los, JoinKeys)

\* the second merge made on renewable again, the first merge's result lost
integrate_without_losses(cons, ren, los) ==
    LET df == merge(ren, los, JoinKeys) IN
    IF Raised(df) THEN df ELSE merge(ren, cons, JoinKeys)

integrate_data(cons, ren, los) ==
    LET df == merge(ren, los, JoinKeys) IN
    IF Raised(df) THEN df ELSE merge(df, cons, JoinKeys)

----------------------------------------------------------------------------
(* Task 5: save_final_dataset *)

\* the file opened for appending: the lines already there stay
save_appending(old, df) ==
    IF old = Missing THEN to_csv(df)
    ELSE [header |-> old.header, lines |-> old.lines \o to_csv(df).lines]

\* df.to_csv("integrated_electricity_dataset.csv", index=False) over whatever
\* the file held
save_final_dataset(old, df) == to_csv(df)

\* the file as open(path, "w") leaves it: there, with nothing in it
Truncated == [header |-> <<>>, lines |-> <<>>]

\* what of a file is on disk once the header and its first k lines are
\* flushed
written(file, k) == [header |-> file.header, lines |-> SubSeq(file.lines, 1, k)]

----------------------------------------------------------------------------
(* The flow electricity_pipeline *)

TaskOrder == <<"fetch_consumption_data", "load_renewable_data", "load_losses_data",
               "integrate_data", "save_final_dataset">>

\* a task raised and the flow goes on to the next task all the same
ContinueAfter(exc, next) == /\ pc' = next
                            /\ failure' = exc

\* a task raised: nothing in the flow catches it and no retries are set, so
\* the run fails there and `next`, the task that follows, is never invoked
Fail(exc, next) == /\ pc' = "failed"
                   /\ failure' = exc

\* python pipeline.py: a run starts when no run is going on
StartRun ==
    /\ pc \in {"idle", "completed", "failed"}
    /\ pc' = "fetch"
    /\ lastRun' = IF pc = "idle" THEN "none" ELSE pc
    /\ consumption' = Pending /\ renewable' = Pending
    /\ losses' = Pending /\ integrated' = Pending
    /\ executed' = <<>>
    /\ failure' = "none"
    /\ fileAtStart' = outFile
    /\ UNCHANGED <<api, csvFile, dbTable, outFile>>
    /\ UNCHANGED dashVars

FetchConsumption ==
    /\ pc = "fetch"
    /\ executed' = Append(executed, "fetch_consumption_data")
    /\ LET df == fetch_consumption_data(api) IN
       IF Raised(df)
       THEN Fail(df.exc, "renewable") /\ UNCHANGED consumption
       ELSE pc' = "renewable" /\ consumption' = df /\ UNCHANGED failure
    /\ UNCHANGED <<api, csvFile, dbTable, outFile, renewable, losses, integrated,
                   fileAtStart, lastRun>>
    /\ UNCHANGED dashVars

LoadRenewable ==
    /\ pc = "renewable"
    /\ executed' = Append(executed, "load_renewable_data")
    /\ LET df == load_renewable_data(csvFile) IN
       IF Raised(df)
       THEN Fail(df.exc, "losses") /\ UNCHANGED renewable
       ELSE pc' = "losses" /\ renewable' = df /\ UNCHANGED failure
    /\ UNCHANGED <<api, csvFile, dbTable, outFile, consumption, losses, integrated,
                   fileAtStart, lastRun>>
    /\ UNCHANGED dashVars

LoadLosses ==
    /\ pc = "losses"
    /\ executed' = Append(executed, "load_losses_data")
    /\ LET df == load_losses_data(dbTable) IN
       IF Raised(df)
       THEN Fail(df.exc, "integrate") /\ UNCHANGED losses
       ELSE pc' = "integrate" /\ losses' = df /\ UNCHANGED failure
    /\ UNCHANGED <<api, csvFile, dbTable, outFile, consumption, renewable, integrated,
                   fileAtStart, lastRun>>
    /\ UNCHANGED dashVars

Integrate ==
    /\ pc = "integrate"
    /\ executed' = Append(executed, "integrate_data")
    /\ LET df == integrate_data(consumption, renewable, losses) IN
       IF Raised(df)
       THEN Fail(df.exc, "save") /\ UNCHANGED integrated
       ELSE pc' = "save" /\ integrated' = df /\ UNCHANGED failure
    /\ UNCHANGED <<api, csvFile, dbTable, outFile, consumption, renewable, losses,
                   fileAtStart, lastRun>>
    /\ UNCHANGED dashVars

\* save_final_dataset starts: to_csv opens the file for writing, which
\* empties it; there is no temporary file and no rename
SaveOpen ==
    /\ pc = "save"
    /\ executed' = Append(executed, "save_final_dataset")
    /\ outFile' = Truncated
    /\ pc' = "writing"
    /\ UNCHANGED <<api, csvFile, dbTable, consumption, renewable, losses, integrated,
                   failure, fileAtStart, lastRun>>
    /\ UNCHANGED dashVars

\* to_csv writes: the header and some more of the lines reach the file
SaveFlush ==
    /\ pc = "writing"
    /\ \E k \in 0..Len(integrated.rows) :
          /\ outFile = Truncated \/ Len(outFile.lines) < k
          /\ outFile' = written(save_final_dataset(fileAtStart, integrated), k)
    /\ UNCHANGED <<api, csvFile, dbTable, pc, consumption, renewable, losses,
                   integrated, executed, failure, fileAtStart, lastRun>>
    /\ UNCHANGED dashVars

\* to_csv closes the file, all of the table in it, and the task returns
SaveClose ==
    /\ pc = "writing"
    /\ outFile' = save_final_dataset(fileAtStart, integrated)
    /\ pc' = "completed"
    /\ UNCHANGED <<api, csvFile, dbTable, consumption, renewable, losses, integrated,
                   executed, failure, fileAtStart, lastRun>>
    /\ UNCHANGED dashVars

----------------------------------------------------------------------------
(* The sources the specifications draw from *)

CountryName ==
    [c \in {"USA", "FRA", "DEU", "JPN", "BRA", "IND", "CHN", "CAN"} |->
        CASE c = "USA" -> "United States" [] c = "FRA" -> "France"
          [] c = "DEU" -> "Germany" [] c = "JPN" -> "Japan"
          [] c = "BRA" -> "Brazil" [] c = "IND" -> "India"
          [] c = "CHN" -> "China" [] c = "CAN" -> "Canada"]

RenewableHeader == <<"Country Code", "Country Name", "year", "renewable_electricity_percent">>

LossesColumns == <<"country_code", "year", "electricity_losses_pct">>

\* API responses of at most n records
ApiResponses(ids, dates, values, n) ==
    {[json |-> data] :
        data \in SeqsUpTo({[country |-> [id |-> i], date |-> d, value |-> v] :
                              i \in ids, d \in dates, v \in values}, n)}

\* renewable files of at most n lines under the header
RenewableFiles(codes, years, values, n) ==
    {[header |-> RenewableHeader, lines |-> l] :
        l \in SeqsUpTo({<<c, CountryName[c], y, v>> :
                           c \in codes, y \in years, v \in values}, n)}

\* losses tables of at most n rows
LossesTables(codes, years, values, n) ==
    {[columns |-> LossesColumns, rows |-> r] :
        r \in SeqsUpTo({[country_code |-> c, year |-> y, electricity_losses_pct |-> v] :
                           c \in codes, y \in years, v \in values}, n)}

Date2010 == <<2, 0, 1, 0>>
Date2011 == <<2, 0, 1, 1>>

\* what an earlier run left in the output file: one row for (FRA, 2010)
EarlierOutput ==
    to_csv(integrate_data(
        fetch_consumption_data(
            [json |-> <<[country |-> [id |-> "FR"], date |-> Date2010, value |-> 9]>>]),
        load_renewable_data([header |-> RenewableHeader,
                             lines |-> <<<<"FRA", "France", 2010, 20>>>>]),
        load_losses_data([columns |-> LossesColumns,
                          rows |-> <<[country_code |-> "FRA", year |-> 2010,
                                      electricity_losses_pct |-> 6]>>])))

----------------------------------------------------------------------------
(* Spec: runs of the flow, one after the other, over sources that may be     *)
(* unreachable or missing, with the output file absent or left by an         *)
(* earlier run                                                               *)

\* no dashboard process is running
NoDashboard ==
    /\ variant = "none"
    /\ cache = NotCached
    /\ reads = 0
    /\ view = NoView

Init ==
    /\ api \in ApiResponses({"US", "1W"}, {Date2010}, {NoValue, 7}, MaxFlowRows)
                  \cup {Unreachable}
    /\ csvFile \in RenewableFiles({"USA"}, {2010, 2011}, {NoValue, 30}, MaxFlowRows)
                  \cup {Missing}
    /\ dbTable \in LossesTables({"USA"}, {2010, 2011}, {NoValue, 5}, MaxFlowRows)
                  \cup {Missing}
    /\ outFile \in {Missing, EarlierOutput}
    /\ pc = "idle"
    /\ consumption = Pending /\ renewable = Pending
    /\ losses = Pending /\ integrated = Pending
    /\ executed = <<>>
    /\ failure = "none"
    /\ fileAtStart = outFile
    /\ lastRun = "none"
    /\ NoDashboard

Next == \/ StartRun
        \/ FetchConsumption
        \/ LoadRenewable
        \/ LoadLosses
        \/ Integrate
        \/ SaveOpen
        \/ SaveFlush
        \/ SaveClose

Spec == Init /\ [][Next]_vars

(* SpecFetch: fetch_consumption_data applied to every API response of at     *)
(* most MaxRecords records                                                   *)

InitFetch ==
    /\ api \in ApiResponses({"US", "FR", "1W", None}, {Date2010, Date2011},
                            {NoValue, 0, 7}, MaxRecords)
    /\ csvFile = Missing
    /\ dbTable = Missing
    /\ outFile = Missing
    /\ pc = "fetch"
    /\ consumption = Pending /\ renewable = Pending
    /\ losses = Pending /\ integrated = Pending
    /\ executed = <<>>
    /\ failure = "none"
    /\ fileAtStart = outFile
    /\ lastRun = "none"
    /\ NoDashboard

NextFetch == FetchConsumption

SpecFetch == InitFetch /\ [][NextFetch]_vars

(* SpecJoin: integrate_data applied to every three source tables of at most  *)
(* MaxRows rows, as the three extract tasks return them                      *)

InitJoin ==
    /\ api \in ApiResponses({"US", "FR"}, {Date2010}, {7}, MaxRows)
    /\ csvFile \in RenewableFiles({"USA", "FRA"}, {2010, 2011}, {30}, MaxRows)
    /\ dbTable \in LossesTables({"USA", "FRA"}, {2010, 2011}, {5}, MaxRows)
    /\ outFile = Missing
    /\ pc = "integrate"
    /\ consumption = fetch_consumption_data(api)
    /\ renewable = load_renewable_data(csvFile)
    /\ losses = load_losses_data(dbTable)
    /\ integrated = Pending
    /\ executed = SubSeq(TaskOrder, 1, 3)
    /\ failure = "none"
    /\ fileAtStart = outFile
    /\ lastRun = "none"
    /\ NoDashboard

NextJoin == Integrate

SpecJoin == InitJoin /\ [][NextJoin]_vars

----------------------------------------------------------------------------
(* The dashboards: src/dashboard.py, dashboard2.py, dashboard3.py and        *)
(* deployedDashboard1.py, Streamlit scripts run top to bottom on every       *)
(* interaction. A frame derived from df (a filter, a sort, a head) is the    *)
(* sequence of the index labels of its rows, which are positions in df.rows. *)

DashboardVariants == {"dashboard", "dashboard2", "dashboard3", "deployedDashboard1"}

NaN == [nan |-> TRUE]
Infinity == [inf |-> TRUE]

\* the index labels of df
index(df) == [i \in 1..Len(df.rows) |-> i]

\* frame[c] as the sequence of its values
column(df, frame, c) == [k \in 1..Len(frame) |-> df.rows[frame[k]][c]]

\* the values of a column that are not missing
Present(values) == SelectSeq(values, LAMBDA v : v # NoValue)

\* Series.min() and Series.max(): missing values are skipped, NaN when none is left
min(values) ==
    IF Present(values) = <<>> THEN NoValue
    ELSE CHOOSE m \in Range(Present(values)) : \A v \in Range(Present(values)) : m <= v

max(values) ==
    IF Present(values) = <<>> THEN NoValue
    ELSE CHOOSE m \in Range(Present(values)) : \A v \in Range(Present(values)) : m >= v

RECURSIVE sum(_)
sum(values) == IF values = <<>> THEN 0 ELSE values[1] + sum(Tail(values))

\* Series.mean(): the sum of the values present over their number, NaN when
\* none is present; kept as a fraction
mean(values) ==
    IF Present(values) = <<>> THEN NaN
    ELSE [num |-> sum(Present(values)), den |-> Len(Present(values))]

\* the values of column c by index label
by(df, c) == [i \in 1..Len(df.rows) |-> df.rows[i][c]]

\* the label x put into a sorted sequence of labels, behind the labels
\* whose key does not sort after its own
RECURSIVE insert(_, _, _, _)
insert(x, sorted, key, ascending) ==
    IF sorted = <<>> THEN <<x>>
    ELSE IF (ascending /\ key[x] < key[sorted[1]]) \/ (~ascending /\ key[x] > key[sorted[1]])
         THEN <<x>> \o sorted
         ELSE <<sorted[1]>> \o insert(x, Tail(sorted), key, ascending)

RECURSIVE arrange(_, _, _)
arrange(frame, key, ascending) ==
    IF frame = <<>> THEN <<>>
    ELSE insert(frame[Len(frame)],
                arrange(SubSeq(frame, 1, Len(frame) - 1), key, ascending),
                key, ascending)

\* a sort that keeps rows with equal values in the order they had (the
\* sort on a list of columns is done this way, column by column from the
\* last); rows with a missing value last
lexsort(frame, key, ascending) ==
    arrange(SelectSeq(frame, LAMBDA i : key[i] # NoValue), key, ascending)
        \o SelectSeq(frame, LAMBDA i : key[i] = NoValue)

\* the orders a set of labels can be put in
RECURSIVE orders(_)
orders(labels) ==
    IF labels = {} THEN {<<>>}
    ELSE UNION {{<<x>> \o o : o \in orders(labels \ {x})} : x \in labels}

\* the arrangements of a sorted sequence of labels that differ from it in
\* the order of labels with equal keys only
RECURSIVE tie_orders(_, _)
tie_orders(sorted, key) ==
    IF sorted = <<>> THEN {<<>>}
    ELSE LET tied == SelectSeq(sorted, LAMBDA i : key[i] = key[sorted[1]])
             rest == SubSeq(sorted, Len(tied) + 1, Len(sorted))
         IN {o \o r : o \in orders(Range(tied)), r \in tie_orders(rest, key)}

\* DataFrame.sort_values(column, ascending=...) on one column: the sort is
\* not a stable one (kind="quicksort"), so rows with equal values come in
\* whatever order the build gives them: the set of the orders it can give.
\* Rows with a missing value come last, in the order they had
sort_values(frame, key, ascending) ==
    {a \o SelectSeq(frame, LAMBDA i : key[i] = NoValue) :
        a \in tie_orders(arrange(SelectSeq(frame, LAMBDA i : key[i] # NoValue),
                                 key, ascending),
                         key)}

\* frame.head(n)
head(frame, n) == SubSeq(frame, 1, IF Len(frame) < n THEN Len(frame) ELSE n)

\* the column the sidebar selects the country by
CountryColumn(v) == IF v = "dashboard" THEN "country_code" ELSE "country_name"

\* the options of the country selector: sorted(df[column].unique())
country_options(df, v) == Range(column(df, index(df), CountryColumn(v)))

\* the ends of the year sliders: int(df["year"].min()), int(df["year"].max());
\* the minimum of an empty column is NaN and int(NaN) raises ValueError
year_bounds(df) ==
    LET years == column(df, index(df), "year") IN
    IF min(years) = NoValue THEN [exc |-> "ValueError"]
    ELSE [min_value |-> min(years), max_value |-> max(years)]

\* st.sidebar.slider("Select Year Range", min_value, max_value, (min_value,
\* max_value)): the ranges the user can set it to; Streamlit raises
\* StreamlitAPIException for a slider whose min_value is not less than its
\* max_value, which is the slider of a table whose rows are all of one year
slider(min_value, max_value) ==
    IF min_value >= max_value THEN [exc |-> "StreamlitAPIException"]
    ELSE [ranges |-> {r \in (min_value..max_value) \X (min_value..max_value) :
                        r[1] <= r[2]}]

\* a filter with strict year comparisons
filter_strict(df, v, country, year_range) ==
    SelectSeq(index(df), LAMBDA i : /\ df.rows[i][CountryColumn(v)] = country
                                    /\ df.rows[i].year > year_range[1]
                                    /\ df.rows[i].year < year_range[2])

\* filtered_df = df[(df[column] == country) & (df["year"] >= year_range[0])
\*                  & (df["year"] <= year_range[1])]
filtered_df(df, v, country, year_range) ==
    SelectSeq(index(df), LAMBDA i : /\ df.rows[i][CountryColumn(v)] = country
                                    /\ df.rows[i].year >= year_range[1]
                                    /\ df.rows[i].year <= year_range[2])

Indicators == <<"electricity_use_kwh_per_capita", "renewable_electricity_percent",
                "electricity_losses_pct">>

\* the three KPI cards: the mean of each indicator over the filtered subset
metrics(df, filtered) == [k \in 1..Len(Indicators) |-> mean(column(df, filtered, Indicators[k]))]

\* the factor of the indexed trend
IndexBase == 100

\* the plain ratio value / base, not brought to the base of 100
index_of_ratio(value, base) ==
    IF value = NoValue \/ base = NoValue THEN NaN
    ELSE IF base = 0 THEN (IF value = 0 THEN NaN ELSE Infinity)
    ELSE [num |-> value, den |-> base]

\* value / base * 100 on floats: NaN when either is missing, 0 / 0 is NaN,
\* x / 0 is infinite; otherwise the quotient, kept as a fraction
index_of(value, base) ==
    IF value = NoValue \/ base = NoValue THEN NaN
    ELSE IF base = 0 THEN (IF value = 0 THEN NaN ELSE Infinity)
    ELSE [num |-> value * IndexBase, den |-> base]

\* idx_df: of the filtered subset as the sort by year left it, each
\* indicator divided by the value of the first row (base_row =
\* idx_df.iloc[0]) and multiplied by 100
idx_df(df, sorted) ==
    LET base_row == df.rows[sorted[1]]
    IN [k \in 1..Len(sorted) |->
          [c \in Range(Indicators) \cup {"label"} |->
              IF c = "label" THEN sorted[k]
              ELSE index_of(df.rows[sorted[k]][c], base_row[c])]]

\* the number of countries of the ranking
TopN == 5

\* df[df["year"] == map_year]
year_rows(df, map_year) == SelectSeq(index(df), LAMBDA i : df.rows[i].year = map_year)

\* the first five rows of the selected year without sorting them
top5_unsorted(df, map_year) == {head(year_rows(df, map_year), TopN)}

\* top5_df: the rows of the selected year sorted by descending consumption,
\* the first five of them; one frame for each order the sort can give
top5_df(df, map_year) ==
    {head(sorted, TopN) :
        sorted \in sort_values(year_rows(df, map_year),
                               by(df, "electricity_use_kwh_per_capita"), FALSE)}

\* the rows of every country, sorted as rank_df is
rank_df_all(df, top5) ==
    lexsort(lexsort(index(df), by(df, "electricity_use_kwh_per_capita"), FALSE),
            by(df, "year"), TRUE)

\* rank_df of the bump chart: the rows of df whose country is among the top
\* five, sorted by year and, within the year, by descending consumption
\* (sort_values on two columns: arranged by the second, then by the first)
rank_df(df, top5) ==
    LET names == Range(column(df, top5, "country_name")) IN
    lexsort(
        lexsort(SelectSeq(index(df), LAMBDA i : df.rows[i].country_name \in names),
                by(df, "electricity_use_kwh_per_capita"), FALSE),
        by(df, "year"), TRUE)

\* ranking where equal consumptions share the smallest rank of their group
rank_min(df, frame) ==
    [k \in 1..Len(frame) |->
        LET row == df.rows[frame[k]]
            use(m) == df.rows[frame[m]].electricity_use_kwh_per_capita
            group == {m \in 1..Len(frame) : df.rows[frame[m]].year = row.year}
        IN IF use(k) = NoValue THEN NoValue
           ELSE 1 + Cardinality({m \in group : use(m) > use(k)})]

\* groupby("year")[consumption].rank(method="first", ascending=False): within
\* the rows of a year, one more than the number of rows with a greater
\* consumption plus the number of earlier rows with an equal one; a missing
\* consumption gets no rank
rank(df, frame) ==
    [k \in 1..Len(frame) |->
        LET row == df.rows[frame[k]]
            use(m) == df.rows[frame[m]].electricity_use_kwh_per_capita
            group == {m \in 1..Len(frame) : df.rows[frame[m]].year = row.year}
        IN IF use(k) = NoValue THEN NoValue
           ELSE 1 + Cardinality({m \in group : use(m) > use(k)})
                  + Cardinality({m \in group : m < k /\ use(m) = use(k)})]

(* The statements of the scripts after the filter. A statement is at a line *)
(* of its script, runs under a condition on the filtered subset ("always",   *)
(* "nonempty": if not filtered_df.empty, "empty": its else branch,           *)
(* "several": if len(filtered_df) > 1, "bubble": if bubble is not None),     *)
(* reads names, binds names and puts an element on the page.                 *)

Stmt(line, when, uses, binds, shows) ==
    [line |-> line, when |-> when, uses |-> uses, binds |-> binds,
     shows |-> shows, none |-> FALSE]

\* name = None
NoneStmt(line, name) ==
    [line |-> line, when |-> "always", uses |-> {}, binds |-> {name},
     shows |-> "nothing", none |-> TRUE]

dashboard ==
    << Stmt(67, "nonempty", {"filtered_df"}, {}, "metrics"),
       Stmt(85, "empty", {}, {}, "warning"),
       Stmt(93, "always", {"df"}, {"map_year"}, "slider"),
       Stmt(100, "always", {"df", "map_year"}, {"geo_merged"}, "static map"),
       Stmt(127, "always", {"geo_merged"}, {"plotly_map"}, "map"),
       Stmt(146, "always", {"df", "map_year"}, {"top5_df"}, "top5"),
       Stmt(169, "nonempty", {"filtered_df"}, {"chart_data"}, "trend"),
       Stmt(195, "nonempty", {"filtered_df"}, {"area_chart"}, "area"),
       Stmt(213, "nonempty", {"filtered_df"}, {"scatter"}, "scatter"),
       Stmt(233, "nonempty", {"filtered_df"}, {"bubble"}, "bubble"),
       Stmt(258, "always", {"df", "top5_df"}, {"heat_df"}, "heatmap"),
       Stmt(275, "nonempty", {"filtered_df"}, {"idx_df", "base_row"}, "index"),
       Stmt(305, "nonempty", {"filtered_df"}, {}, "lines"),
       Stmt(322, "nonempty", {"filtered_df"}, {}, "line"),
       Stmt(329, "nonempty", {"filtered_df"}, {}, "line"),
       Stmt(336, "nonempty", {"filtered_df"}, {}, "line"),
       Stmt(347, "always", {"filtered_df"}, {}, "table") >>

dashboard2 ==
    << Stmt(60, "nonempty", {"filtered_df"}, {}, "metrics"),
       Stmt(82, "nonempty", {"filtered_df"}, {}, "line"),
       Stmt(89, "nonempty", {"filtered_df"}, {}, "line"),
       Stmt(96, "nonempty", {"filtered_df"}, {}, "line"),
       Stmt(107, "nonempty", {"filtered_df"}, {"base"}, "trend"),
       Stmt(130, "nonempty", {"filtered_df"}, {"idx_df", "base_row"}, "index"),
       Stmt(159, "nonempty", {"filtered_df"}, {"scatter"}, "scatter"),
       NoneStmt(175, "bubble"),
       Stmt(176, "nonempty", {"filtered_df"}, {"bubble"}, "bubble"),
       Stmt(194, "nonempty", {"filtered_df"}, {"box_df"}, "box"),
       Stmt(217, "always", {"df"}, {"map_year"}, "slider"),
       Stmt(224, "always", {"df", "map_year"}, {"top5_df"}, "top5"),
       Stmt(243, "always", {"df", "map_year"}, {"plotly_map"}, "map"),
       Stmt(273, "always", {"filtered_df"}, {}, "figure X"),
       Stmt(279, "bubble", {"bubble"}, {}, "figure Y"),
       Stmt(283, "always", {"plotly_map"}, {}, "figure Z"),
       Stmt(289, "always", {"filtered_df"}, {}, "table") >>

dashboard3 ==
    << Stmt(60, "nonempty", {"filtered_df"}, {}, "metrics"),
       Stmt(82, "nonempty", {"filtered_df"}, {}, "line"),
       Stmt(89, "nonempty", {"filtered_df"}, {}, "line"),
       Stmt(96, "nonempty", {"filtered_df"}, {}, "line"),
       Stmt(107, "nonempty", {"filtered_df"}, {"base"}, "trend"),
       Stmt(132, "nonempty", {"filtered_df"}, {"idx_df", "base_row"}, "index"),
       Stmt(176, "nonempty", {"filtered_df"}, {"scatter"}, "scatter"),
       Stmt(195, "always", {"df"}, {"map_year"}, "slider"),
       Stmt(202, "always", {"df", "map_year"}, {"top5_df"}, "top5"),
       Stmt(221, "always", {"df", "top5_df"}, {"rank_df"}, "bump"),
       Stmt(245, "always", {"df", "map_year"}, {"plotly_map"}, "map"),
       Stmt(275, "always", {"filtered_df"}, {}, "figure X"),
       Stmt(281, "always", {"scatter"}, {}, "figure Y"),
       Stmt(284, "always", {"plotly_map"}, {}, "figure Z"),
       Stmt(290, "always", {"filtered_df"}, {}, "table") >>

deployedDashboard1 ==
    << Stmt(56, "nonempty", {"filtered_df"}, {}, "metrics"),
       Stmt(74, "empty", {}, {}, "warning"),
       Stmt(81, "nonempty", {"filtered_df"}, {}, "line"),
       Stmt(89, "nonempty", {"filtered_df"}, {}, "line"),
       Stmt(97, "nonempty", {"filtered_df"}, {}, "line"),
       Stmt(108, "several", {"filtered_df"}, {"chart_df", "base"}, "index"),
       Stmt(150, "always", {"df"}, {"map_year"}, "slider"),
       Stmt(157, "always", {"df", "map_year"}, {"map_df"}, "map"),
       Stmt(176, "always", {"map_df"}, {"top5"}, "top5"),
       Stmt(196, "always", {"filtered_df"}, {}, "table") >>

script(v) ==
    CASE v = "dashboard" -> dashboard
      [] v = "dashboard2" -> dashboard2
      [] v = "dashboard3" -> dashboard3
      [] v = "deployedDashboard1" -> deployedDashboard1

\* the names bound once the filter has run
AfterFilter == [bound |-> {"df", "country", "year_range", "filtered_df"},
                notnone |-> {"df", "country", "year_range", "filtered_df"}]

\* whether the statement runs for a filtered subset of n rows; the condition
\* "bubble" reads the name bubble
taken(stmt, env, n) ==
    CASE stmt.when = "always" -> TRUE
      [] stmt.when = "nonempty" -> n > 0
      [] stmt.when = "empty" -> n = 0
      [] stmt.when = "several" -> n > 1
      [] stmt.when = "bubble" -> "bubble" \in env.notnone

reads_unbound(stmt, env, n) ==
    \/ stmt.when = "bubble" /\ "bubble" \notin env.bound
    \/ taken(stmt, env, n) /\ ~(stmt.uses \subseteq env.bound)

\* the statements from the k-th on, run in order: reading a name that is not
\* bound raises NameError and ends the cycle
RECURSIVE run(_, _, _, _, _)
run(stmts, k, env, shown, n) ==
    IF k > Len(stmts) THEN [raised |-> "none", line |-> 0, shown |-> shown]
    ELSE IF reads_unbound(stmts[k], env, n)
         THEN [raised |-> "NameError", line |-> stmts[k].line, shown |-> shown]
    ELSE IF ~taken(stmts[k], env, n) THEN run(stmts, k + 1, env, shown, n)
    ELSE run(stmts, k + 1,
             [bound |-> env.bound \cup stmts[k].binds,
              notnone |-> IF stmts[k].none THEN env.notnone \ stmts[k].binds
                          ELSE env.notnone \cup stmts[k].binds],
             IF stmts[k].shows = "nothing" THEN shown ELSE Append(shown, stmts[k].shows),
             n)

\* the lines of the table load and of the year-range slider in each script
load_line(v) == CASE v = "dashboard" -> 32 [] v = "deployedDashboard1" -> 23 [] OTHER -> 30
slider_line(v) == CASE v = "dashboard" -> 45 [] v = "deployedDashboard1" -> 35 [] OTHER -> 42

\* a cycle that an exception ended before the filter; stale tells that the
\* table the cycle used is not what the output file held when it ran
failed(df, stale, exc, line) ==
    [df |-> df, stale |-> stale, country |-> None, year_range |-> <<>>, map_year |-> NoValue,
     filtered |-> <<>>, raised |-> exc, line |-> line, shown |-> <<>>,
     metrics |-> <<>>, index |-> <<>>, top5 |-> <<>>, rank_df |-> <<>>, rank |-> <<>>]

\* the script from the filter to its last statement, for the widget values
\* of the cycle: what it computed for the elements it put on the page, one
\* page for each order the sorts of the cycle can give
render(v, df, stale, country, year_range, map_year) ==
    LET filtered == filtered_df(df, v, country, year_range)
        result == run(script(v), 1, AfterFilter, <<>>, Len(filtered))
        has(e) == e \in Range(result.shown)
        shown_metrics == IF has("metrics") THEN metrics(df, filtered) ELSE <<>>
        indexed == IF has("index")
                   THEN {idx_df(df, sorted) :
                            sorted \in sort_values(filtered, by(df, "year"), TRUE)}
                   ELSE {<<>>}
        bump == has("bump")
        top == has("top5")
    IN {[df |-> df, stale |-> stale, country |-> country, year_range |-> year_range,
         map_year |-> map_year, filtered |-> filtered,
         raised |-> result.raised, line |-> result.line, shown |-> result.shown,
         metrics |-> shown_metrics,
         index |-> index_shown,
         top5 |-> IF top THEN top5 ELSE <<>>,
         rank_df |-> IF bump THEN rank_df(df, top5) ELSE <<>>,
         rank |-> IF bump THEN rank(df, rank_df(df, top5)) ELSE <<>>] :
            index_shown \in indexed,
            top5 \in top5_df(df, map_year)}

\* a load that reads the file on every cycle
load_uncached(v, c, file) ==
    LET df == read_csv(file) IN [value |-> df, cache |-> c, read |-> TRUE]

\* df = pd.read_csv(...) at the top of the script; in deployedDashboard1
\* df = load_data() under @st.cache_data: the file is read when nothing is
\* cached, and what the read returned is cached (an exception is not);
\* read tells that the call went to the file, whether it returned or raised
load(v, c, file) ==
    IF v = "deployedDashboard1" /\ c # NotCached
    THEN [value |-> c, cache |-> c, read |-> FALSE]
    ELSE LET df == read_csv(file) IN
         [value |-> df,
          cache |-> IF v = "deployedDashboard1" /\ ~Raised(df) THEN df ELSE c,
          read |-> TRUE]

\* the options of the country selector in the order sorted() gives them
Alphabetical(v) ==
    IF v = "dashboard"
    THEN <<"BRA", "CAN", "CHN", "DEU", "FRA", "IND", "JPN", "USA">>
    ELSE <<"Brazil", "Canada", "China", "France", "Germany", "India", "Japan",
           "United States">>

\* the option a selectbox holds until the user picks another: the first one
first_option(df, v) ==
    LET options == country_options(df, v)
        sorted == SelectSeq(Alphabetical(v), LAMBDA c : c \in options)
    IN sorted[1]

\* one run of the script: the load, the country selector and the year-range
\* slider, then the filter and the page for the values the widgets hold.
\* The sidebar widgets hold their initial values (the first country, the
\* whole range of years) unless the user has moved them.
Cycle(sidebar_moved) ==
    /\ variant \in DashboardVariants
    /\ LET loaded == load(variant, cache, outFile)
           df == loaded.value
           years == year_bounds(df)
           stale == df # read_csv(outFile)
       IN /\ cache' = loaded.cache
          /\ reads' = IF loaded.read /\ reads < 2 THEN reads + 1 ELSE reads
          /\ IF Raised(df) THEN view' = failed(df, stale, df.exc, load_line(variant))
             ELSE IF Raised(years)
                  THEN view' = failed(df, stale, years.exc, slider_line(variant))
             ELSE IF Raised(slider(years.min_value, years.max_value))
                  THEN view' = failed(df, stale,
                                      slider(years.min_value, years.max_value).exc,
                                      slider_line(variant))
             ELSE \E country \in IF sidebar_moved THEN country_options(df, variant)
                                  ELSE {first_option(df, variant)} :
                  \E year_range \in IF sidebar_moved
                                     THEN slider(years.min_value, years.max_value).ranges
                                     ELSE {<<years.min_value, years.max_value>>} :
                  \E map_year \in years.min_value..years.max_value :
                     view' \in render(variant, df, stale, country, year_range, map_year)
    /\ UNCHANGED <<flowVars, variant>>

\* a rerun after any interaction
RenderCycle == Cycle(TRUE)

\* a rerun after the user moved the slider of the ranking year only
RankingCycle == Cycle(FALSE)

\* the columns of the output file, in the order integrate_data leaves them
OutputColumns == <<"country_code", "country_name", "year", "renewable_electricity_percent",
                   "electricity_losses_pct", "electricity_use_kwh_per_capita">>

OutputRow(code, year, use, ren, loss) ==
    [country_code |-> code, country_name |-> CountryName[code], year |-> year,
     renewable_electricity_percent |-> ren, electricity_losses_pct |-> loss,
     electricity_use_kwh_per_capita |-> use]

\* output files of at most n rows
OutputFiles(codes, years, uses, rens, lossvalues, n) ==
    {to_csv([columns |-> OutputColumns, rows |-> r]) :
        r \in SeqsUpTo({OutputRow(c, y, u, p, l) :
                           c \in codes, y \in years, u \in uses,
                           p \in rens, l \in lossvalues}, n)}

\* no flow run is under way
NoRun ==
    /\ api = Unreachable /\ csvFile = Missing /\ dbTable = Missing
    /\ pc = "idle"
    /\ consumption = Pending /\ renewable = Pending
    /\ losses = Pending /\ integrated = Pending
    /\ executed = <<>>
    /\ failure = "none"
    /\ fileAtStart = outFile
    /\ lastRun = "none"

\* rows of the output file the dashboard reads in SpecDash
MaxFileRows == 2

(* SpecDash: each dashboard over every output file of at most MaxFileRows    *)
(* rows, header-only files included, or no file, rerun for every value its   *)
(* widgets can take                                                          *)

InitDash ==
    /\ outFile \in OutputFiles({"USA", "FRA"}, {2010, 2011}, {7}, {NoValue, 0}, {5},
                               MaxFileRows) \cup {Missing}
    /\ NoRun
    /\ variant \in DashboardVariants
    /\ cache = NotCached
    /\ reads = 0
    /\ view = NoView

NextDash == RenderCycle

SpecDash == InitDash /\ [][NextDash]_vars

\* rows of the output file the dashboard ranks in SpecRank
MaxRankRows == 7

\* the countries of the rows of a ranked file, by position
Countries == <<"USA", "FRA", "DEU", "JPN", "BRA", "IND", "CHN", "CAN">>

\* the file a run of the flow writes from sources of n countries, a
\* renewable line, a losses row and a consumption row for each, in the
\* order of Countries; the countries in early are of 2010, the others of
\* 2011; the consumption in position j is 10 * j or 10 * (j + 1), that of the
\* next position when both take the same. One source may repeat the key of
\* the first country: the renewable file with the same line once more, at
\* its end, or the consumption table with a second row, at its end
RankedFile(n, early, u, repeated) ==
    LET code(i) == Countries[i]
        year(i) == IF i \in early THEN 2010 ELSE 2011
        line(i) == <<code(i), CountryName[code(i)], year(i), 30>>
        use(i, j) == [country_code |-> code(i), year |-> year(i),
                      electricity_use_kwh_per_capita |-> 10 * (j + u[j])]
        ren == load_renewable_data(
                   [header |-> RenewableHeader,
                    lines |-> [i \in 1..n |-> line(i)]
                                \o (IF repeated = "renewable" THEN <<line(1)>> ELSE <<>>)])
        los == load_losses_data(
                   [columns |-> LossesColumns,
                    rows |-> [i \in 1..n |->
                                [country_code |-> code(i), year |-> year(i),
                                 electricity_losses_pct |-> 5]]])
        cons == DataFrame([i \in 1..n |-> use(i, i)]
                              \o (IF repeated = "consumption" THEN <<use(1, n + 1)>> ELSE <<>>),
                          ConsumptionColumns)
    IN save_final_dataset(Missing, integrate_data(cons, ren, los))

\* the files runs of the flow write from sources of n countries: a key
\* repeated in the renewable file gives two rows apart with the same
\* consumption, a key repeated in the consumption table two rows next to
\* each other
RankFiles(n) ==
    UNION {{RankedFile(n, early, u, repeated) :
               early \in SUBSET (1..(IF n < 2 THEN n ELSE 2)),
               u \in [1..(IF repeated = "consumption" THEN n + 1 ELSE n) -> {0, 1}]} :
           repeated \in {"none", "renewable", "consumption"}}

\* the consumptions of the ranking example, five countries in one year
ExampleUses == <<10, 30, 20, 30, 5>>

\* the five rows of the example, of 2011, and after them a row of the first
\* country for 2010
ExampleFile ==
    to_csv([columns |-> OutputColumns,
            rows |-> [i \in 1..Len(ExampleUses) |->
                        OutputRow(Countries[i], 2011, ExampleUses[i], 30, 5)]
                     \o <<OutputRow(Countries[1], 2010, ExampleUses[1], 30, 5)>>])

(* SpecRank: each dashboard over the output files of at most MaxRankRows    *)
(* rows that runs of the flow write, the ranking year moved over its range   *)

InitRank ==
    /\ outFile \in {file \in UNION {RankFiles(n) : n \in 1..MaxRankRows} :
                        Len(file.lines) <= MaxRankRows}
                     \cup {ExampleFile}
    /\ NoRun
    /\ variant \in DashboardVariants
    /\ cache = NotCached
    /\ reads = 0
    /\ view = NoView

NextRank == RankingCycle

SpecRank == InitRank /\ [][NextRank]_vars

(* SpecServe: a dashboard process next to the pipeline: runs of the flow     *)
(* overwrite the output file between the rendering cycles, and while a cycle *)
(* reads it. Each source holds a row of the United States for each of its    *)
(* first years from 2010 on, MaxServeRows of them at most, so that a run     *)
(* can write a table of one year or of several                               *)

\* rows per source in SpecServe
MaxServeRows == 2

\* the year of the i-th row of a source
ServeYear(i) == 2009 + i

\* str(year) as the sequence of its digits
Decimal(year) == <<year \div 1000, (year \div 100) % 10, (year \div 10) % 10, year % 10>>

InitServe ==
    /\ api \in {[json |-> [i \in 1..k |-> [country |-> [id |-> "US"],
                                             date |-> Decimal(ServeYear(i)),
                                             value |-> 7]]] : k \in 0..MaxServeRows}
    /\ csvFile \in {[header |-> RenewableHeader,
                      lines |-> [i \in 1..k |->
                                   <<"USA", CountryName["USA"], ServeYear(i), 30>>]] :
                        k \in 0..MaxServeRows}
    /\ dbTable \in {[columns |-> LossesColumns,
                      rows |-> [i \in 1..k |->
                                  [country_code |-> "USA", year |-> ServeYear(i),
                                   electricity_losses_pct |-> 5]]] :
                        k \in 0..MaxServeRows}
    /\ outFile \in {Missing, EarlierOutput}
    /\ pc = "idle"
    /\ consumption = Pending /\ renewable = Pending
    /\ losses = Pending /\ integrated = Pending
    /\ executed = <<>>
    /\ failure = "none"
    /\ fileAtStart = outFile
    /\ lastRun = "none"
    /\ variant \in DashboardVariants
    /\ cache = NotCached
    /\ reads = 0
    /\ view = NoView

NextServe == \/ StartRun
             \/ FetchConsumption
             \/ LoadRenewable
             \/ LoadLosses
             \/ Integrate
             \/ SaveOpen
             \/ SaveFlush
             \/ SaveClose
             \/ RenderCycle

SpecServe == InitServe /\ [][NextServe]_vars

(* SpecDates: fetch_consumption_data applied to every API response of at     *)
(* most MaxRecords records, country ids and dates as the API writes them     *)

InitDates ==
    /\ api \in ApiResponses({"US", "FR", "1W"}, {Date2010, Date2011},
                            {NoValue, 7}, MaxRecords)
    /\ csvFile = Missing
    /\ dbTable = Missing
    /\ outFile = Missing
    /\ pc = "fetch"
    /\ consumption = Pending /\ renewable = Pending
    /\ losses = Pending /\ integrated = Pending
    /\ executed = <<>>
    /\ failure = "none"
    /\ fileAtStart = outFile
    /\ lastRun = "none"
    /\ NoDashboard

NextDates == FetchConsumption

SpecDates == InitDates /\ [][NextDates]_vars

----------------------------------------------------------------------------
(* Notions the properties are stated with *)

KeyOf(row) == <<row.country_code, row.year>>

Keys(df) == {KeyOf(df.rows[i]) : i \in 1..Len(df.rows)}

Count(df, key) == Cardinality({i \in 1..Len(df.rows) : KeyOf(df.rows[i]) = key})

KeySeq(df) == [i \in 1..Len(df.rows) |-> KeyOf(df.rows[i])]

Among(keyseq, keys) == LET Test(k) == k \in keys IN SelectSeq(keyseq, Test)

UniqueKeys(df) == \A key \in Keys(df) : Count(df, key) = 1

\* integrate_data returned a table
Integrated == pc \in {"save", "writing", "completed"}

IndicatorColumns == {"electricity_use_kwh_per_capita", "renewable_electricity_percent",
                     "electricity_losses_pct"}

\* the value of a string of decimal digits, by the weight of each position
RECURSIVE Power10(_)
Power10(n) == IF n = 0 THEN 1 ELSE 10 * Power10(n - 1)

RECURSIVE WeightedSum(_, _)
WeightedSum(digits, i) ==
    IF i > Len(digits) THEN 0
    ELSE digits[i] * Power10(Len(digits) - i) + WeightedSum(digits, i + 1)

\* the positions of the API records that have a mapping and a value
KeptRecords(data) ==
    {i \in 1..Len(data) : data[i].country.id \in DOMAIN ReferenceTable
                          /\ data[i].value # NoValue}

\* the k-th kept position
KthKept(data, k) ==
    CHOOSE i \in KeptRecords(data) : Cardinality({j \in KeptRecords(data) : j < i}) = k - 1

----------------------------------------------------------------------------
(* The properties *)

\* C1: the table integrate_data returns has a row with key (country_code, year)
\* if and only if that key occurs in all three source tables
C1_RowIffKeyInAllThree ==
    Integrated =>
        Keys(integrated) = Keys(renewable) \cap Keys(losses) \cap Keys(consumption)

\* C1 witness: a table with a row was returned while a key of renewable and
\* losses is absent from consumption and so has no row
C1_Witness ==
    /\ pc = "save"
    /\ integrated.rows # <<>>
    /\ \E key \in Keys(renewable) \cap Keys(losses) :
          key \notin Keys(consumption) /\ key \notin Keys(integrated)

\* C2: iso2_to_iso3 gives, for a code of the reference table, the three-letter
\* code the table pairs with it, and None for every other input, whatever the
\* records of the API response hold as country id
C2_MappingOrNone ==
    api # Unreachable =>
        \A i \in 1..Len(api.json) :
            LET code == api.json[i].country.id IN
            IF code \in DOMAIN ReferenceTable
            THEN iso2_to_iso3(code) = ReferenceTable[code]
            ELSE iso2_to_iso3(code) = None

\* C2 witness: the fetch has run over a response with a mapped code, and an
\* aggregate code or a missing id
C2_Witness ==
    /\ pc = "renewable"
    /\ \E i, j \in 1..Len(api.json) :
          /\ api.json[i].country.id = "FR"
          /\ api.json[j].country.id \in {"1W", None}
    /\ Len(consumption.rows) = 1
    /\ consumption.rows[1].country_code = "FRA"

\* C3: fetch_consumption_data emits one row (mapped code, integer year, value)
\* per API record with a mapped country id and a non-null value, in API order,
\* and no other row; a value of 0 is kept
C3_OneRowPerKeptRecord ==
    (pc = "renewable" /\ api # Unreachable) =>
        /\ Len(consumption.rows) = Cardinality(KeptRecords(api.json))
        /\ \A k \in 1..Len(consumption.rows) :
              LET item == api.json[KthKept(api.json, k)] IN
              consumption.rows[k] =
                  [country_code |-> ReferenceTable[item.country.id],
                   year |-> WeightedSum(item.date, 1),
                   electricity_use_kwh_per_capita |-> item.value]

\* C3 witness: a record with value 0 was kept and a record with a null value
\* or an unmapped id was dropped
C3_Witness ==
    /\ pc = "renewable"
    /\ Len(api.json) = 2
    /\ Len(consumption.rows) = 1
    /\ consumption.rows[1].electricity_use_kwh_per_capita = 0
    /\ consumption.rows[1].year = 2011

\* C4 (as claimed): every row of the integrated table has a value in each of
\* the three indicator columns
C4_NoMissingIndicator ==
    Integrated =>
        \A i \in 1..Len(integrated.rows) :
            \A c \in IndicatorColumns : integrated.rows[i][c] # NoValue

\* C5 (as claimed): when a source yields a table with zero rows, integrate_data
\* completes without error and returns a table with zero rows
C5_EmptySourceEmptyTable ==
    (/\ Len(executed) >= 4
     /\ executed[4] = "integrate_data"
     /\ \/ consumption.rows = <<>>
        \/ renewable.rows = <<>>
        \/ losses.rows = <<>>)
    => (failure = "none" /\ integrated.rows = <<>>)

\* the integration in the other order: (losses join renewable) join consumption
SwappedOrder == merge(merge(losses, renewable, JoinKeys), consumption, JoinKeys)

NoDuplicateKeys == UniqueKeys(renewable) /\ UniqueKeys(losses) /\ UniqueKeys(consumption)

\* C6 (as claimed): without duplicate keys, both join orders give the same
\* rows in the same positions
C6_SameRowsSamePositions ==
    (pc = "save" /\ NoDuplicateKeys) => integrated.rows = SwappedOrder.rows

\* C6 (amended): without duplicate keys, both join orders give the same rows,
\* the first in the order of the renewable rows, the second in the order of
\* the losses rows
C6_SameRowsUpToOrder ==
    (pc = "save" /\ NoDuplicateKeys) =>
        /\ Range(integrated.rows) = Range(SwappedOrder.rows)
        /\ Len(integrated.rows) = Len(SwappedOrder.rows)
        /\ KeySeq(integrated) = Among(KeySeq(renewable), Keys(integrated))
        /\ KeySeq(SwappedOrder) = Among(KeySeq(losses), Keys(integrated))

\* C6 witness: two keys joined, listed in opposite orders by renewable and losses
C6_Witness ==
    /\ pc = "save"
    /\ NoDuplicateKeys
    /\ Len(integrated.rows) = 2
    /\ KeySeq(renewable) # KeySeq(losses)
    /\ integrated.rows[1] = SwappedOrder.rows[2]

\* C7: the number of integrated rows with a key is the product of the numbers
\* of rows with that key in the three sources; with unique keys in every
\* source the integrated table has unique keys
C7_FanOutProduct ==
    Integrated =>
        /\ \A key \in Keys(renewable) \cup Keys(losses) \cup Keys(consumption)
                      \cup Keys(integrated) :
              Count(integrated, key) =
                  Count(renewable, key) * Count(losses, key) * Count(consumption, key)
        /\ NoDuplicateKeys => UniqueKeys(integrated)

\* C7 witness: a key twice in renewable and twice in consumption has four rows
C7_Witness ==
    /\ pc = "save"
    /\ \E key \in Keys(integrated) :
          /\ Count(renewable, key) = 2
          /\ Count(consumption, key) = 2
          /\ Count(losses, key) = 1
          /\ Count(integrated, key) = 4

IsPrefix(s, t) == Len(s) <= Len(t) /\ s = SubSeq(t, 1, Len(s))

\* C8: the tasks of a run are invoked in the fixed order, each at most once;
\* the output file changes only by save_final_dataset, invoked after the three
\* extract steps and integrate_data completed; a step that fails ends the run
\* in failure with no later step executed and the output file as it was
C8_SaveLastFailureStops ==
    /\ IsPrefix(executed, TaskOrder)
    /\ outFile # fileAtStart => executed = TaskOrder
    /\ "save_final_dataset" \in Range(executed) =>
          /\ ~Raised(consumption) /\ consumption # Pending
          /\ ~Raised(renewable) /\ renewable # Pending
          /\ ~Raised(losses) /\ losses # Pending
          /\ ~Raised(integrated) /\ integrated # Pending
    /\ failure # "none" <=> pc = "failed"
    /\ pc = "failed" =>
          /\ outFile = fileAtStart
          /\ "save_final_dataset" \notin Range(executed)
          /\ executed # <<>>

\* C8 witness: the renewable file is missing, the run failed at the second
\* step and the file of an earlier run is still there
C8_Witness ==
    /\ pc = "failed"
    /\ failure = "FileNotFoundError"
    /\ executed = SubSeq(TaskOrder, 1, 2)
    /\ outFile = EarlierOutput

\* C9: after a successful run the output file holds exactly the integrated
\* table of the sources the run read, header then one line per row, with
\* nothing of what the file held before; a successful run following a
\* successful run over the same sources leaves the file as it was
C9_FileIsLastIntegration ==
    pc = "completed" =>
        /\ integrated = integrate_data(fetch_consumption_data(api),
                                       load_renewable_data(csvFile),
                                       load_losses_data(dbTable))
        /\ outFile.header = integrated.columns
        /\ Len(outFile.lines) = Len(integrated.rows)
        /\ \A i \in 1..Len(outFile.lines) :
              /\ Len(outFile.lines[i]) = Len(integrated.columns)
              /\ \A j \in 1..Len(integrated.columns) :
                    outFile.lines[i][j] = integrated.rows[i][integrated.columns[j]]
        /\ lastRun = "completed" => outFile = fileAtStart

\* C9 witness: a second successful run in a row, over a file with a row; the
\* first run replaced the file an earlier run had left
C9_Witness ==
    /\ pc = "completed"
    /\ lastRun = "completed"
    /\ Len(outFile.lines) = 1
    /\ outFile # EarlierOutput

\* C10 (as claimed): the columns of the output file, consumption indicator
\* before the other two
C10_ColumnsAsListed ==
    pc = "completed" =>
        outFile.header = <<"country_code", "country_name", "year",
                           "electricity_use_kwh_per_capita",
                           "renewable_electricity_percent", "electricity_losses_pct">>

\* C10 (amended): the columns of the output file a run writes are the renewable
\* columns, then the losses indicator, then the consumption indicator
C10_ColumnsInJoinOrder ==
    pc = "completed" =>
        outFile.header = <<"country_code", "country_name", "year",
                           "renewable_electricity_percent", "electricity_losses_pct",
                           "electricity_use_kwh_per_capita">>

\* C10 witness: a run wrote the file, with a row
C10_Witness ==
    /\ pc = "completed"
    /\ lastRun = "none"
    /\ outFile.lines # <<>>

\* the last cycle got past the widgets and filtered the table
CycleFiltered == view # NoView /\ view.year_range # <<>>

\* C11: in every dashboard variant, a rendering cycle whose filtered subset
\* is empty displays no mean KPI value and shows an explicit no-data notice.
C11_EmptySubsetNotice ==
    (CycleFiltered /\ view.filtered = <<>>) =>
        /\ view.metrics = <<>>
        /\ "warning" \in Range(view.shown)

\* C12: in every dashboard variant, a rendering cycle whose filtered subset
\* is empty runs to the last statement of the script without raising: every
\* later use of a value derived from the subset is reached only when the
\* value is defined.
C12_EmptySubsetRunsToEnd ==
    (CycleFiltered /\ view.filtered = <<>>) => view.raised = "none"

\* an index value that is exactly 100
IsHundred(x) == "num" \in DOMAIN x /\ x.num = IndexBase * x.den

\* the row of the table the first row of the indexed trend comes from
BaseRow == view.df.rows[view.index[1]["label"]]

\* C13 as stated: for any filtered subset for which the index is computed,
\* after sorting by year the index of the first row is exactly 100 for all
\* three indicators, whatever the indicator values of that row are.
C13_FirstRowIsHundred ==
    (CycleFiltered /\ view.index # <<>>) =>
        \A c \in Range(Indicators) : IsHundred(view.index[1][c])

\* C13 amended: the first row of the indexed trend is a row of the earliest
\* year of the filtered subset, and its index is exactly 100 for each
\* indicator whose value in that row is present and not zero, and NaN for an
\* indicator whose value in that row is zero or missing.
C13_FirstRowIsHundredOrNaN ==
    (CycleFiltered /\ view.index # <<>>) =>
        /\ \A k \in 1..Len(view.filtered) :
              BaseRow.year <= view.df.rows[view.filtered[k]].year
        /\ \A c \in Range(Indicators) :
              IF BaseRow[c] \in {0, NoValue}
              THEN view.index[1][c] = NaN
              ELSE IsHundred(view.index[1][c])

\* deployedDashboard1 indexed a subset of two years whose earliest row has a
\* renewable share of zero, next to a consumption that is not zero
C13_Witness ==
    /\ CycleFiltered
    /\ variant = "deployedDashboard1"
    /\ Len(view.index) > 1
    /\ BaseRow.year < view.df.rows[view.index[2]["label"]].year
    /\ BaseRow.renewable_electricity_percent = 0
    /\ view.index[1]["renewable_electricity_percent"] = NaN
    /\ IsHundred(view.index[1]["electricity_use_kwh_per_capita"])

\* the last cycle drew the bump chart of dashboard3
BumpDrawn == CycleFiltered /\ "bump" \in Range(view.shown)

\* the consumption of the row of the table labelled i
UseOf(i) == view.df.rows[i].electricity_use_kwh_per_capita

\* the positions of rank_df whose rows are of the year of position k
SameYear(k) ==
    {m \in 1..Len(view.rank_df) :
        view.df.rows[view.rank_df[m]].year = view.df.rows[view.rank_df[k]].year}

\* within each year the ranks are a permutation of 1..n, a larger consumption
\* has a smaller rank, and of two equal consumptions the row that comes
\* first in the table has the smaller rank
RanksOrderYear ==
    \A k \in 1..Len(view.rank_df) :
        /\ {view.rank[m] : m \in SameYear(k)} = 1..Cardinality(SameYear(k))
        /\ \A m \in SameYear(k) :
              /\ UseOf(view.rank_df[k]) > UseOf(view.rank_df[m]) => view.rank[k] < view.rank[m]
              /\ (/\ UseOf(view.rank_df[k]) = UseOf(view.rank_df[m])
                  /\ view.rank_df[k] < view.rank_df[m]) => view.rank[k] < view.rank[m]

\* the ranks of the five rows of the example, in the order of the table
RanksInTableOrder ==
    [i \in 1..Len(ExampleUses) |->
        view.rank[CHOOSE k \in 1..Len(view.rank_df) : view.rank_df[k] = i]]

\* the table ranked is the one of the example, the ranking year that of its
\* five rows: all five are ranked
ExampleRanked ==
    /\ BumpDrawn
    /\ to_csv(view.df) = ExampleFile
    /\ view.map_year = 2011
    /\ 1..Len(ExampleUses) \subseteq Range(view.rank_df)

\* C14 as stated: in the bump chart of dashboard3 the ranks of the rows of
\* each year are a permutation of 1..n, a strictly larger consumption gets a
\* strictly smaller rank, equal consumptions are ranked in row order, and
\* the consumptions [10, 30, 20, 30, 5] are ranked [5, 1, 3, 2, 4].
C14_RanksWithExample ==
    BumpDrawn =>
        /\ RanksOrderYear
        /\ ExampleRanked => RanksInTableOrder = <<5, 1, 3, 2, 4>>

\* C14 amended: the same ordering of the ranks within each year, and the
\* consumptions [10, 30, 20, 30, 5] are ranked [4, 1, 3, 2, 5].
C14_RanksOrderYear ==
    BumpDrawn =>
        /\ RanksOrderYear
        /\ ExampleRanked => RanksInTableOrder = <<4, 1, 3, 2, 5>>

\* dashboard3 ranked the five rows of the example
C14_Witness ==
    /\ variant = "dashboard3"
    /\ ExampleRanked
    /\ RanksInTableOrder = <<4, 1, 3, 2, 5>>

\* C15 as stated: in dashboard3, for every integrated table and every
\* selected ranking year, each rank of the bump chart lies in 1..5.
C15_RankAtMostFive ==
    BumpDrawn => \A k \in 1..Len(view.rank) : view.rank[k] \in 1..TopN

\* C15 amended: each rank of the bump chart lies in 1..n, n the number of
\* rows of its year among the rows of the top-five countries; it lies in
\* 1..5 when no two rows of the table have the same country and year.
C15_RankAtMostFiveUniqueKeys ==
    BumpDrawn =>
        \A k \in 1..Len(view.rank) :
            /\ view.rank[k] \in 1..Cardinality(SameYear(k))
            /\ UniqueKeys(view.df) => view.rank[k] \in 1..TopN

\* six countries in the ranking year, none twice: the fifth rank is given
\* and the sixth country is not ranked
C15_Witness ==
    /\ BumpDrawn
    /\ UniqueKeys(view.df)
    /\ Len(year_rows(view.df, view.map_year)) > TopN
    /\ TopN \in Range(view.rank)
    /\ Len(view.rank_df) < Len(view.df.rows)

\* the last cycle drew the top-five view
TopDrawn == CycleFiltered /\ "top5" \in Range(view.shown)

\* the rows of the table of the selected ranking year
YearRows == {i \in 1..Len(view.df.rows) : view.df.rows[i].year = view.map_year}

\* C16: the top-five view holds exactly min(5, n) rows, all taken from the
\* n rows of the selected year, listed by descending consumption, and no
\* row of that year left out of the view has a strictly greater consumption
\* than a row in it.
C16_TopFive ==
    TopDrawn =>
        /\ Len(view.top5) = (IF Cardinality(YearRows) < 5 THEN Cardinality(YearRows) ELSE 5)
        /\ Range(view.top5) \subseteq YearRows
        /\ Cardinality(Range(view.top5)) = Len(view.top5)
        /\ \A k, m \in 1..Len(view.top5) :
              k < m => UseOf(view.top5[k]) >= UseOf(view.top5[m])
        /\ \A i \in YearRows \ Range(view.top5) :
              \A t \in Range(view.top5) : ~(UseOf(i) > UseOf(t))

\* deployedDashboard1 ranked a year of more than five rows: a row is left
\* out, and a row listed after it in the table with a greater consumption
\* is in the view
C16_Witness ==
    /\ TopDrawn
    /\ variant = "deployedDashboard1"
    /\ Cardinality(YearRows) > 5
    /\ Len(view.top5) = 5
    /\ \E i \in YearRows \ Range(view.top5) :
          \E t \in Range(view.top5) : t > i /\ UseOf(t) > UseOf(i)

\* the country of a row as the selector of the script names it
SelectedBy(row) == IF variant = "dashboard" THEN row.country_code ELSE row.country_name

\* C17: the filtered subset is exactly the set of rows whose country equals
\* the selected country and whose year lies between the lower and the upper
\* end of the selected range, both ends included.
C17_FilteredSubset ==
    CycleFiltered =>
        /\ Range(view.filtered) =
              {i \in 1..Len(view.df.rows) :
                  /\ SelectedBy(view.df.rows[i]) = view.country
                  /\ view.year_range[1] <= view.df.rows[i].year
                  /\ view.df.rows[i].year <= view.year_range[2]}
        /\ \A k, m \in 1..Len(view.filtered) : k < m => view.filtered[k] < view.filtered[m]

\* dashboard.py, a range of the single year 2011: the row of the selected
\* country of 2011 is in the subset, its row of 2010 is not
C17_Witness ==
    /\ CycleFiltered
    /\ variant = "dashboard"
    /\ view.year_range = <<2011, 2011>>
    /\ \E i \in Range(view.filtered) : view.df.rows[i].year = 2011
    /\ \E j \in 1..Len(view.df.rows) :
          /\ view.df.rows[j].country_code = view.country
          /\ view.df.rows[j].year = 2010
          /\ j \notin Range(view.filtered)

\* C18 as stated: deployedDashboard1 reads the output file at most once per
\* process: every rendering cycle after the first computes its views from
\* the table the first cycle loaded, so a pipeline run that overwrites the
\* file between two cycles does not change the table the later cycle uses.
C18_FileReadOnce ==
    /\ [](variant = "deployedDashboard1" =>
            /\ reads <= 1
            /\ (view # NoView /\ cache # NotCached) => view.df = cache)
    /\ [][(variant = "deployedDashboard1" /\ cache # NotCached) => cache' = cache]_vars

\* C18 amended: in deployedDashboard1 a read of the output file that raises
\* leaves nothing cached, and the cycle ends at the load; once a read has
\* returned a table the file is not read again in the process, and every
\* later cycle computes its views from that table, whatever pipeline runs
\* write to the file.
C18_FileReadUntilReturned ==
    /\ [](variant = "deployedDashboard1" =>
            /\ cache # NotCached => ~Raised(cache)
            /\ (view # NoView /\ cache # NotCached) => view.df = cache
            /\ (view # NoView /\ cache = NotCached) =>
                  (Raised(view.df) /\ view.line = load_line(variant)))
    /\ [][(variant = "deployedDashboard1" /\ cache # NotCached) =>
             (cache' = cache /\ reads' = reads)]_vars

\* the first cycle of deployedDashboard1 found no file; a cycle after a run
\* of the flow read the table of two years it had written; a later cycle
\* rendered that table while the next run was writing the file
C18_Witness ==
    /\ variant = "deployedDashboard1"
    /\ lastRun = "completed"
    /\ pc = "writing"
    /\ reads = 2
    /\ view # NoView
    /\ view.stale
    /\ view.raised = "none"
    /\ view.df = cache
    /\ Len(cache.rows) = 2
    /\ read_csv(outFile) # cache

\* no two records of the API response have the same country id and date
DistinctRecords ==
    \A i, j \in 1..Len(api.json) :
        (/\ api.json[i].country.id = api.json[j].country.id
         /\ api.json[i].date = api.json[j].date) => i = j

\* C19: if no two records of the API response share the same (country id,
\* date), no two rows the consumption fetcher emits share the same
\* (country_code, year): over the ids and dates the API writes, the mapping
\* and the conversion of the date send different inputs to different keys.
C19_DistinctRecordsDistinctKeys ==
    (pc = "renewable" /\ DistinctRecords) => UniqueKeys(consumption)

\* two records that differ in the country id only, or in the date only,
\* gave two rows
C19_Witness ==
    /\ pc = "renewable"
    /\ DistinctRecords
    /\ Len(api.json) = 2
    /\ Len(consumption.rows) = 2
    /\ \/ /\ api.json[1].date = api.json[2].date
          /\ consumption.rows[1].country_code # consumption.rows[2].country_code
       \/ /\ api.json[1].country.id = api.json[2].country.id
          /\ consumption.rows[1].year # consumption.rows[2].year

\* C20: for every output file a successful pipeline run can write, the file
\* with a header and no rows of an empty join included, each dashboard
\* variant completes the set-up of its country selector and year-range
\* slider, and its rendering cycle, without raising.
C20_CyclesComplete ==
    (/\ pc = "completed"
     /\ view # NoView
     /\ view.df = read_csv(outFile)) => view.raised = "none"

====
